---- MODULE Spec2Model ----
(***************************************************************************)
(* State-machine model of the MiiA.bit host-side driver                    *)
(* (src/miipy_miiabit.py, src/miia_bit_definitions.py).                    *)
(*                                                                         *)
(* One MiiABit object talks to one pyserial port.  The port is modelled by *)
(* what the driver can observe of it: whether it is open, the bytes the    *)
(* driver has written to it so far (wire), and, per call, whether a write  *)
(* or read raises and which bytes a read returns.  op is the method       *)
(* called most recently and res how that call ended: "ok", or the          *)
(* exception it raised.  A call that raises leaves the object usable.      *)
(***************************************************************************)
EXTENDS Integers, Sequences, FiniteSets, TLC

\* Longest byte history of the port that is explored.
MaxWire == 7

\* Number of writes to the open port that are made to raise.
MaxFaults == 1

\* Python's None for the two sensor attributes (bytes are 0..255).
None == -1

---------------------------------------------------------------------------
(* miia_bit_definitions.py *)

miia_bit_opcodes ==
    [buzzer |-> 201, motor_a |-> 202, motor_b |-> 203,
     rgb_led_r |-> 204, rgb_led_g |-> 205, rgb_led_b |-> 206, servo |-> 208]

miia_bit_motors == {"a", "b"}

\* A speed range one too wide.
miia_bit_motor_speed_range_wide == 0..101

miia_bit_motor_speed_range == 0..100

miia_bit_motor_directions == [reverse |-> 1, forward |-> 0]

miia_bit_buzzer_states == [on |-> 1, off |-> 0]

miia_bit_servo_range == 0..100

miia_bit_calibration_range == -50..50

miia_bit_rgb_led_range == 0..100

---------------------------------------------------------------------------
(* The calls that are explored: valid ones and invalid ones of every kind. *)

\* (motor, direction, speed) of control_motor
MotorInputs ==
    { <<"a", "forward", 50>>, <<"a", "reverse", 0>>, <<"b", "reverse", 100>>,
      <<"c", "forward", 50>>, <<"a", "sideways", 50>>, <<"b", "forward", 101>>,
      <<"a", "forward", -1>>, <<"c", "forward", 101>> }

\* (red, green, blue) of control_rgb_led
LedInputs ==
    { <<0, 20, 100>>,
      <<101, 0, 0>>, <<0, -1, 0>>, <<0, 0, 101>> }

BuzzerInputs == {"on", "off", "beep"}

ServoInputs == {-1, 100, 101}

\* (motor, calibration_factor) of set_motor_calibration
CalibrationInputs ==
    { <<"a", -10>>,
      <<"c", 0>>, <<"a", 51>>, <<"b", -51>> }

\* (motor_a_calibration, motor_b_calibration) handed to the constructor
CtorCalibrationInputs == { <<0, 0>>, <<-10, 51>> }

\* What serial_connection.read(size=6) can return: a full 6-byte reply
\* (well-formed, or with one marker byte off), or fewer bytes on timeout.
TelemetryFrames ==
    { <<99, 1, 99, 122, 37, 122>>,
      <<98, 0, 99, 122, 38, 122>>, <<99, 0, 0, 122, 38, 122>>,
      <<99, 0, 99, 121, 38, 122>>, <<99, 0, 99, 122, 38, 99>> }

ShortReads == { SubSeq(<<99, 1, 99, 122, 37, 122>>, 1, n) : n \in {0, 5} }

ReadInputs == TelemetryFrames \cup ShortReads

---------------------------------------------------------------------------
VARIABLES
    phase,               \* "new": not constructed, "ready": __init__ returned,
                         \* "failed": __init__ raised
    is_open,             \* serial_connection is open
    motor_cal_values,    \* self.motor_cal_values
    distance_sensor,     \* self.distance_sensor
    input_button_state,  \* self.input_button_state
    wire,                \* every byte written to the serial port, in order
    faults,              \* writes to the open port that have raised so far
    op,                  \* the method called most recently
    res                  \* how that call ended

vars == <<phase, is_open, motor_cal_values, distance_sensor,
          input_button_state, wire, faults, op, res>>

---------------------------------------------------------------------------
(* Exceptions *)

AssertMotor == "AssertionError: Select either motor a or b"

AssertCalibration == "AssertionError: Calibration factor must be in the range -50 to 50"

AssertIntensity == "AssertionError: Channel intensity must be between 0 and 100"

AssertBuzzer == "AssertionError: Buzzer state must be 'on' or 'off'"

AssertDirection == "AssertionError: Direction must be either 'forward' or 'reverse"

AssertSpeed == "AssertionError: Speed must be in the range 0 - 100"

AssertPosition == "AssertionError: Position must be in the range 0 - 100"

\* struct.pack("!1B", item) on an item outside 0..255
PackError == "struct.error: ubyte format requires 0 <= number <= 255"

\* struct.unpack("!6B", buf) on a buffer that is not 6 bytes long
UnpackError == "struct.error: unpack requires a buffer of 6 bytes"

\* serial.SerialException: the port is closed, cannot be opened, or the
\* transfer failed.
SerialException == "serial.SerialException"

---------------------------------------------------------------------------
(* Helpers of MiiABit *)

\* struct.pack("!1B", item): a bytes object of length one.
struct_pack(item) == <<item>>

\* struct.pack("!1B", item) raises struct.error unless 0 <= item <= 255.
struct_pack_raises(item) == item \notin 0..255

\* A packing that masks every item to one byte instead of raising.
pack_data_array_masking(data) ==
    [raised |-> FALSE, packed |-> [i \in DOMAIN data |-> <<data[i] % 256>>]]

\* A packing that appends the items back to front.
pack_data_array_reversed(data) ==
    IF \E i \in DOMAIN data : struct_pack_raises(data[i])
    THEN [raised |-> TRUE, packed |-> <<>>]
    ELSE [raised |-> FALSE,
          packed |-> [i \in DOMAIN data |-> struct_pack(data[Len(data) + 1 - i])]]

\* _pack_data_array(*data): the list of packed items, or struct.error.
pack_data_array(data) ==
    IF \E i \in DOMAIN data : struct_pack_raises(data[i])
    THEN [raised |-> TRUE, packed |-> <<>>]
    ELSE [raised |-> FALSE, packed |-> [i \in DOMAIN data |-> struct_pack(data[i])]]

\* _send_data(data_array): one write per item, in order; the write number
\* fail_at raises (0: none does), and nothing after it is written.
RECURSIVE send_data(_, _, _)
send_data(w, data_array, fail_at) ==
    IF data_array = <<>> THEN [wire |-> w, raised |-> FALSE]
    ELSE IF fail_at = 1 THEN [wire |-> w, raised |-> TRUE]
    ELSE send_data(w \o Head(data_array), Tail(data_array), fail_at - 1)

\* The writes that can raise: on a closed port the first one always does; on
\* an open port any one may, as long as the port raises at all.
WriteFailures(n) ==
    IF ~is_open THEN {1} ELSE IF faults < MaxFaults THEN 0..n ELSE {0}

\* The count of writes that the open port has made raise.
CountFault(raised) == IF raised /\ is_open THEN faults + 1 ELSE faults

\* 'motor_{}'.format(motor)
selected_motor(motor) == IF motor = "a" THEN "motor_a" ELSE "motor_b"

\* pack data, then send data: the tail shared by the control operations.
\* A write that raises leaves the object as it was; the caller goes on.
PackAndSend(data) ==
    LET p == pack_data_array(data) IN
    IF p.raised
    THEN /\ res' = PackError
         /\ UNCHANGED <<wire, faults>>
    ELSE /\ Len(wire) + Len(data) <= MaxWire
         /\ \E fail_at \in WriteFailures(Len(data)) :
              LET s == send_data(wire, p.packed, fail_at) IN
              /\ wire' = s.wire
              /\ faults' = CountFault(s.raised)
              /\ res' = IF s.raised THEN SerialException ELSE "ok"

---------------------------------------------------------------------------
Init ==
    /\ phase = "new"
    /\ is_open = FALSE
    /\ motor_cal_values = [m \in miia_bit_motors |-> 0]
    /\ distance_sensor = None
    /\ input_button_state = None
    /\ wire = <<>>
    /\ faults = 0
    /\ op = "none"
    /\ res = "ok"

\* A constructor that sends no handshake.
connection_ready_skipped ==
    /\ wire' = wire
    /\ faults' = faults
    /\ phase' = "ready"
    /\ res' = "ok"

\* _connection_ready(): the handshake, one zero byte.
connection_ready ==
    LET p == pack_data_array(<<0>>) IN
    \E fail_at \in 0..1 :
        LET s == send_data(wire, p.packed, fail_at) IN
        /\ wire' = s.wire
        /\ faults' = IF s.raised THEN faults + 1 ELSE faults
        /\ phase' = IF s.raised THEN "failed" ELSE "ready"
        /\ res' = IF s.raised THEN SerialException ELSE "ok"

\* serial.Serial(...) in __init__ cannot open the device: no object.
init_cannot_open ==
    /\ phase = "new"
    /\ op' = "__init__"
    /\ phase' = "failed"
    /\ res' = SerialException
    /\ UNCHANGED <<is_open, motor_cal_values, distance_sensor,
                   input_button_state, wire, faults>>

\* MiiABit(device, motor_a_calibration=a, motor_b_calibration=b), port opened
init_call(a, b) ==
    /\ phase = "new"
    /\ op' = "__init__"
    /\ is_open' = TRUE
    /\ motor_cal_values' = [m \in miia_bit_motors |-> IF m = "a" THEN a ELSE b]
    /\ distance_sensor' = None
    /\ input_button_state' = None
    /\ connection_ready

Construct ==
    \/ init_cannot_open
    \/ \E arg \in CtorCalibrationInputs : init_call(arg[1], arg[2])

\* The attributes of the object, which an operation that only writes to the
\* port leaves alone.
ObjectUnchanged ==
    UNCHANGED <<phase, is_open, motor_cal_values, distance_sensor, input_button_state>>

\* An assert fails: AssertionError, before anything else happens.
AssertionFails(message) ==
    /\ res' = message
    /\ UNCHANGED <<phase, is_open, motor_cal_values, distance_sensor,
                   input_button_state, wire, faults>>

\* A store that overwrites the factor of every motor.
store_calibration_all(cal, motor, calibration_factor) ==
    [m \in DOMAIN cal |-> calibration_factor]

\* self.motor_cal_values[motor] = calibration_factor
store_calibration(cal, motor, calibration_factor) ==
    [cal EXCEPT ![motor] = calibration_factor]

\* set_motor_calibration(motor, calibration_factor)
set_motor_calibration_call(motor, calibration_factor) ==
    /\ phase = "ready"
    /\ op' = "set_motor_calibration"
    /\ IF motor \notin miia_bit_motors THEN AssertionFails(AssertMotor)
       ELSE IF calibration_factor \notin miia_bit_calibration_range
       THEN AssertionFails(AssertCalibration)
       ELSE /\ motor_cal_values' = store_calibration(motor_cal_values, motor,
                                                      calibration_factor)
            /\ res' = "ok"
            /\ UNCHANGED <<phase, is_open, distance_sensor, input_button_state,
                           wire, faults>>

set_motor_calibration ==
    \E arg \in CalibrationInputs : set_motor_calibration_call(arg[1], arg[2])

\* control_rgb_led(red, green, blue)
control_rgb_led_call(red, green, blue) ==
    /\ phase = "ready"
    /\ op' = "control_rgb_led"
    /\ IF \/ red \notin miia_bit_rgb_led_range
          \/ green \notin miia_bit_rgb_led_range
          \/ blue \notin miia_bit_rgb_led_range
       THEN AssertionFails(AssertIntensity)
       ELSE /\ PackAndSend(<<miia_bit_opcodes.rgb_led_r, red,
                             miia_bit_opcodes.rgb_led_g, green,
                             miia_bit_opcodes.rgb_led_b, blue>>)
            /\ ObjectUnchanged

control_rgb_led ==
    \E arg \in LedInputs : control_rgb_led_call(arg[1], arg[2], arg[3])

\* control_buzzer(buzzer_state)
control_buzzer_call(buzzer_state) ==
    /\ phase = "ready"
    /\ op' = "control_buzzer"
    /\ IF buzzer_state \notin DOMAIN miia_bit_buzzer_states
       THEN AssertionFails(AssertBuzzer)
       ELSE /\ PackAndSend(<<miia_bit_opcodes.buzzer,
                             miia_bit_buzzer_states[buzzer_state]>>)
            /\ ObjectUnchanged

control_buzzer ==
    \E buzzer_state \in BuzzerInputs : control_buzzer_call(buzzer_state)

\* The speed byte of a motor frame: speed += self.motor_cal_values[motor]
calibrated_speed(speed, motor) == speed + motor_cal_values[motor]

\* control_motor(motor, direction, speed)
control_motor_call(motor, direction, speed) ==
    /\ phase = "ready"
    /\ op' = "control_motor"
    /\ IF direction \notin DOMAIN miia_bit_motor_directions
       THEN AssertionFails(AssertDirection)
       ELSE IF speed \notin miia_bit_motor_speed_range
       THEN AssertionFails(AssertSpeed)
       ELSE IF motor \notin miia_bit_motors
       THEN AssertionFails(AssertMotor)
       ELSE /\ PackAndSend(<<miia_bit_opcodes[selected_motor(motor)],
                             miia_bit_motor_directions[direction],
                             calibrated_speed(speed, motor)>>)
            /\ ObjectUnchanged

control_motor ==
    \E arg \in MotorInputs : control_motor_call(arg[1], arg[2], arg[3])

\* control_servo_motor(position)
control_servo_motor_call(position) ==
    /\ phase = "ready"
    /\ op' = "control_servo_motor"
    /\ IF position \notin miia_bit_servo_range
       THEN AssertionFails(AssertPosition)
       ELSE /\ PackAndSend(<<miia_bit_opcodes.servo, position>>)
            /\ ObjectUnchanged

control_servo_motor ==
    \E position \in ServoInputs : control_servo_motor_call(position)

\* struct.unpack("!6B", buf) raises struct.error unless buf has exactly 6 bytes.
struct_unpack_raises(buf) == Len(buf) # 6

\* rcvd[1] and rcvd[4] of the unpacked tuple (Python indexes from 0).
rcvd_input_button(rcvd) == rcvd[2]

rcvd_distance(rcvd) == rcvd[5]

\* A decoder that stores each field as soon as its byte is there.
receive_data_eager(buf) ==
    [raised |-> struct_unpack_raises(buf),
     input_button_state |-> IF Len(buf) >= 2 THEN buf[2] ELSE input_button_state,
     distance_sensor |-> IF Len(buf) >= 5 THEN buf[5] ELSE distance_sensor]

\* A decoder that rejects a reply whose marker bytes are off.
receive_data_strict(buf) ==
    IF \/ struct_unpack_raises(buf)
       \/ <<buf[1], buf[3], buf[4], buf[6]>> # <<99, 99, 122, 122>>
    THEN [raised |-> TRUE, input_button_state |-> input_button_state,
          distance_sensor |-> distance_sensor]
    ELSE [raised |-> FALSE, input_button_state |-> rcvd_input_button(buf),
          distance_sensor |-> rcvd_distance(buf)]

\* _receive_data(): the sensor attributes after a read that returned buf.
receive_data(buf) ==
    IF struct_unpack_raises(buf)
    THEN [raised |-> TRUE, input_button_state |-> input_button_state,
          distance_sensor |-> distance_sensor]
    ELSE [raised |-> FALSE, input_button_state |-> rcvd_input_button(buf),
          distance_sensor |-> rcvd_distance(buf)]

\* get_data_from_sensors() when serial_connection.read raises (a closed port
\* always does, an open one may)
get_data_from_sensors_raising ==
    /\ phase = "ready"
    /\ op' = "get_data_from_sensors"
    /\ res' = SerialException
    /\ UNCHANGED <<phase, is_open, motor_cal_values, distance_sensor,
                   input_button_state, wire, faults>>

\* get_data_from_sensors() when serial_connection.read returns buf
get_data_from_sensors_reading(buf) ==
    /\ phase = "ready"
    /\ op' = "get_data_from_sensors"
    /\ is_open
    /\ LET r == receive_data(buf) IN
       /\ input_button_state' = r.input_button_state
       /\ distance_sensor' = r.distance_sensor
       /\ res' = IF r.raised THEN UnpackError ELSE "ok"
    /\ UNCHANGED <<phase, is_open, motor_cal_values, wire, faults>>

get_data_from_sensors ==
    \/ get_data_from_sensors_raising
    \/ \E buf \in ReadInputs : get_data_from_sensors_reading(buf)

\* _close(): serial_connection.close()
close ==
    /\ phase = "ready"
    /\ op' = "_close"
    /\ is_open' = FALSE
    /\ res' = "ok"
    /\ UNCHANGED <<phase, motor_cal_values, distance_sensor, input_button_state,
                   wire, faults>>

\* _open() when serial_connection.open() raises (an open port always does,
\* a closed one may)
open_raising ==
    /\ phase = "ready"
    /\ op' = "_open"
    /\ res' = SerialException
    /\ UNCHANGED <<phase, is_open, motor_cal_values, distance_sensor,
                   input_button_state, wire, faults>>

\* _open(): serial_connection.open() and nothing else
open_opening ==
    /\ phase = "ready"
    /\ op' = "_open"
    /\ ~is_open
    /\ is_open' = TRUE
    /\ res' = "ok"
    /\ UNCHANGED <<phase, motor_cal_values, distance_sensor, input_button_state,
                   wire, faults>>

open ==
    \/ open_raising
    \/ open_opening

Next ==
    \/ Construct
    \/ set_motor_calibration
    \/ control_rgb_led
    \/ control_buzzer
    \/ control_motor
    \/ control_servo_motor
    \/ get_data_from_sensors
    \/ close
    \/ open

Spec == Init /\ [][Next]_vars

---------------------------------------------------------------------------
(* Properties.  An action formula such as control_motor_call(m, d, v) is   *)
(* true of exactly the steps that this call can take, so                   *)
(* [][call => P]_vars says that P holds of every such step.  Every step    *)
(* sets op to the method it calls, so op' = "control_motor" is true of     *)
(* exactly the steps of control_motor.                                     *)

SensorsUnchanged ==
    /\ distance_sensor' = distance_sensor
    /\ input_button_state' = input_button_state

\* The step ended in a validation error and changed nothing of the object or
\* of the wire.
Rejected ==
    /\ res' \in {AssertMotor, AssertCalibration, AssertIntensity, AssertBuzzer,
                 AssertDirection, AssertSpeed, AssertPosition}
    /\ wire' = wire
    /\ motor_cal_values' = motor_cal_values
    /\ SensorsUnchanged

OutOfRange(v, lo, hi) == v < lo \/ v > hi

\* C1: a public operation called with an invalid argument ends in an error,
\* writes no byte, and leaves both calibration factors and both cached sensor
\* fields as they were: a step that is not such a rejection is not a call
\* with an invalid argument.
C1_InvalidArgumentsRejected ==
    [][\/ Rejected
       \/ /\ op' = "control_motor" => \A arg \in MotorInputs :
               (\/ arg[1] \notin {"a", "b"}
                \/ arg[2] \notin {"forward", "reverse"}
                \/ OutOfRange(arg[3], 0, 100))
                    => ~control_motor_call(arg[1], arg[2], arg[3])
          /\ op' = "control_servo_motor" => \A position \in ServoInputs :
               OutOfRange(position, 0, 100)
                    => ~control_servo_motor_call(position)
          /\ op' = "control_rgb_led" => \A arg \in LedInputs :
               (\E i \in 1..3 : OutOfRange(arg[i], 0, 100))
                    => ~control_rgb_led_call(arg[1], arg[2], arg[3])
          /\ op' = "control_buzzer" => \A buzzer_state \in BuzzerInputs :
               buzzer_state \notin {"on", "off"}
                    => ~control_buzzer_call(buzzer_state)
          /\ op' = "set_motor_calibration" => \A arg \in CalibrationInputs :
               (arg[1] \notin {"a", "b"} \/ OutOfRange(arg[2], -50, 50))
                    => ~set_motor_calibration_call(arg[1], arg[2])]_vars

\* An invalid speed was rejected on a controller that has sent a frame, holds
\* sensor values and a calibration other than the default.
C1_Witness ==
    /\ res = AssertSpeed
    /\ Len(wire) > 1
    /\ input_button_state = 1 /\ distance_sensor = 37
    /\ motor_cal_values = [a |-> -10, b |-> 0]

\* The frame the protocol gives a motor command, from the claim's numbers.
MotorFrame(motor, direction, third) ==
    << IF motor = "a" THEN 202 ELSE 203,
       IF direction = "forward" THEN 0 ELSE 1,
       third >>

ValidMotorArguments(arg) ==
    /\ arg[1] \in {"a", "b"}
    /\ arg[2] \in {"forward", "reverse"}
    /\ ~OutOfRange(arg[3], 0, 100)

\* C2 as claimed: control_motor with valid arguments and a stored calibration
\* in [-50,50] writes exactly [opcode, direction, speed + calibration] when
\* the sum is in [0,255], and raises without writing a byte when it is not;
\* there is no other outcome.
C2_MotorFrameOrError ==
    [][op' = "control_motor" => \A arg \in MotorInputs :
         (/\ ValidMotorArguments(arg)
          /\ ~OutOfRange(motor_cal_values[arg[1]], -50, 50)
          /\ control_motor_call(arg[1], arg[2], arg[3])) =>
            LET sum == arg[3] + motor_cal_values[arg[1]]
                frame == MotorFrame(arg[1], arg[2], sum)
            IN  \/ /\ sum \in 0..255
                   /\ res' = "ok"
                   /\ wire' = wire \o frame
                \/ /\ sum \notin 0..255
                   /\ res' = PackError
                   /\ wire' = wire]_vars

\* C2 as amended: as claimed, except that with the sum in [0,255] the port
\* may raise (it is closed, or a write fails); the call then ends in the
\* port's error with a proper prefix of that same frame written, none of it
\* on a closed port.  The third byte is never anything but the sum, and a
\* sum outside [0,255] raises before any byte is written.
C2_MotorFrameOrErrorOrPortFailure ==
    [][op' = "control_motor" => \A arg \in MotorInputs :
         (/\ ValidMotorArguments(arg)
          /\ ~OutOfRange(motor_cal_values[arg[1]], -50, 50)
          /\ control_motor_call(arg[1], arg[2], arg[3])) =>
            LET sum == arg[3] + motor_cal_values[arg[1]]
                frame == MotorFrame(arg[1], arg[2], sum)
            IN  \/ /\ sum \in 0..255
                   /\ is_open
                   /\ res' = "ok"
                   /\ wire' = wire \o frame
                \/ /\ sum \notin 0..255
                   /\ res' = PackError
                   /\ wire' = wire
                \/ /\ sum \in 0..255
                   /\ res' = SerialException
                   /\ \E k \in 0..2 : wire' = wire \o SubSeq(frame, 1, k)
                   /\ ~is_open => wire' = wire]_vars

\* With calibration -10 on motor a: control_motor('a', 'forward', 50) on a
\* port whose third write raised left the first two bytes of its frame, and
\* then control_motor('a', 'reverse', 0), whose sum is -10, raised in packing
\* and wrote nothing.
C2_Witness ==
    /\ op = "control_motor" /\ res = PackError
    /\ motor_cal_values["a"] = -10
    /\ is_open /\ faults = 1
    /\ wire = <<0, 202, 0>>

\* C3: construction writes exactly one byte, 0, and it is the first byte on
\* the wire: nothing is written before construction or by a failed one, and no
\* command byte precedes the handshake byte.
C3_HandshakeFirst ==
    /\ [](/\ phase \in {"new", "failed"} => wire = <<>>
          /\ phase = "ready" => (Len(wire) >= 1 /\ wire[1] = 0))
    /\ [][(op' = "__init__" /\ Construct) =>
            /\ wire = <<>>
            /\ res' = "ok" => wire' = <<0>>
            /\ res' # "ok" => wire' = <<>>]_vars

\* A controller has just been constructed.
C3_Witness ==
    /\ phase = "ready" /\ res = "ok"
    /\ wire = <<0>>

\* C4: the wire is the handshake byte followed by the frames of the
\* successful operations, in call order with nothing in between: a successful
\* control operation appends exactly its frame, and nothing else that returns
\* normally writes a byte.
C4_WireIsConcatenation ==
    [][/\ op' = "control_rgb_led" => \A arg \in LedInputs :
            (res' = "ok" /\ control_rgb_led_call(arg[1], arg[2], arg[3])) =>
                wire' = wire \o <<204, arg[1], 205, arg[2], 206, arg[3]>>
       /\ op' = "control_buzzer" => \A buzzer_state \in BuzzerInputs :
            (res' = "ok" /\ control_buzzer_call(buzzer_state)) =>
                wire' = wire \o <<201, IF buzzer_state = "on" THEN 1 ELSE 0>>
       /\ op' = "control_servo_motor" => \A position \in ServoInputs :
            (res' = "ok" /\ control_servo_motor_call(position)) =>
                wire' = wire \o <<208, position>>
       /\ op' = "control_motor" => \A arg \in MotorInputs :
            (res' = "ok" /\ control_motor_call(arg[1], arg[2], arg[3])) =>
                wire' = wire \o MotorFrame(arg[1], arg[2],
                                           arg[3] + motor_cal_values[arg[1]])
       /\ op' \in {"set_motor_calibration", "get_data_from_sensors",
                   "_close", "_open"} => wire' = wire
       /\ (op' = "__init__" /\ res' = "ok" /\ Construct) =>
                (wire = <<>> /\ wire' = <<0>>)]_vars

\* Handshake, a servo frame and a calibrated motor frame, back to back.
C4_Witness ==
    /\ wire = <<0, 208, 100, 202, 0, 40>>
    /\ res = "ok"

\* C5: the stored calibration factors of a constructed controller are both in
\* [-50,50].
C5_CalibrationInRange ==
    phase = "ready" =>
        \A m \in {"a", "b"} : ~OutOfRange(motor_cal_values[m], -50, 50)

\* C6: get_data_from_sensors is all-or-nothing: a 6-byte reply sets the
\* button value to byte 1 and the distance to byte 4 (counted from 0); a
\* failed or short read ends in an error and leaves both as they were.
\* Either way no byte is written and the calibration is unchanged.
C6_SensorReadAllOrNothing ==
    [][op' = "get_data_from_sensors" =>
       /\ \A buf \in ReadInputs :
            get_data_from_sensors_reading(buf) =>
                /\ wire' = wire
                /\ motor_cal_values' = motor_cal_values
                /\ IF Len(buf) = 6
                   THEN /\ res' = "ok"
                        /\ input_button_state' = buf[2]
                        /\ distance_sensor' = buf[5]
                   ELSE /\ res' # "ok"
                        /\ SensorsUnchanged
       /\ get_data_from_sensors_raising =>
                /\ res' # "ok"
                /\ wire' = wire
                /\ motor_cal_values' = motor_cal_values
                /\ SensorsUnchanged]_vars

\* A short read after a successful one: the earlier values are still there.
C6_Witness ==
    /\ res = UnpackError
    /\ input_button_state = 1 /\ distance_sensor = 37

WellFormed(reply) ==
    /\ Len(reply) = 6
    /\ reply[1] = 99 /\ reply[3] = 99 /\ reply[4] = 122 /\ reply[6] = 122

\* C7 as claimed: a 6-byte reply with a mismatched marker byte is flagged as
\* malformed and its bytes are not stored.
C7_MarkersChecked ==
    [][op' = "get_data_from_sensors" => \A buf \in ReadInputs :
         (/\ Len(buf) = 6
          /\ ~WellFormed(buf)
          /\ get_data_from_sensors_reading(buf)) =>
            (res' # "ok" /\ SensorsUnchanged)]_vars

\* C7 as amended: the marker bytes are not looked at; every 6-byte reply is
\* accepted and its bytes 1 and 4 are stored, whatever bytes 0, 2, 3 and 5 are.
C7_MarkersIgnored ==
    [][op' = "get_data_from_sensors" => \A buf \in ReadInputs :
         (/\ Len(buf) = 6
          /\ ~WellFormed(buf)
          /\ get_data_from_sensors_reading(buf)) =>
            /\ res' = "ok"
            /\ input_button_state' = buf[2]
            /\ distance_sensor' = buf[5]]_vars

\* The values 0 and 38, which only the replies with a marker off carry, have
\* been stored.
C7_Witness ==
    /\ res = "ok"
    /\ input_button_state = 0 /\ distance_sensor = 38

\* C8: while the port is closed no control or read operation succeeds or
\* moves a byte, and a re-open runs the handshake again, so that the first
\* byte written after it is a 0.
C8_ReopenHandshakes ==
    /\ [][(/\ ~is_open
           /\ op' \in {"control_motor", "control_servo_motor", "control_rgb_led",
                       "control_buzzer", "get_data_from_sensors"}) =>
            (res' # "ok" /\ wire' = wire /\ SensorsUnchanged)]_vars
    /\ [][(op' = "_open" /\ open_opening) => wire' = wire \o <<0>>]_vars

\* C9: a construction that failed has left no port open.
C9_FailedConstructionClosesPort ==
    phase = "failed" => ~is_open

\* C10: a valid set_motor_calibration stores the factor for that motor only,
\* writes nothing and leaves the sensor fields alone; no other operation
\* changes a stored factor, control_motor in particular does not, and a motor
\* frame carries the factor stored at the time of the call.
C10_CalibrationStoredAndUsed ==
    [][/\ op' = "set_motor_calibration" => \A arg \in CalibrationInputs :
            (/\ arg[1] \in {"a", "b"}
             /\ ~OutOfRange(arg[2], -50, 50)
             /\ set_motor_calibration_call(arg[1], arg[2])) =>
                /\ res' = "ok"
                /\ motor_cal_values'[arg[1]] = arg[2]
                /\ \A m \in {"a", "b"} \ {arg[1]} :
                       motor_cal_values'[m] = motor_cal_values[m]
                /\ wire' = wire
                /\ SensorsUnchanged
       /\ op' \notin {"set_motor_calibration", "__init__"} =>
                motor_cal_values' = motor_cal_values
       /\ op' = "control_motor" => \A arg \in MotorInputs :
            (res' = "ok" /\ control_motor_call(arg[1], arg[2], arg[3])) =>
                wire' = wire \o MotorFrame(arg[1], arg[2],
                                           arg[3] + motor_cal_values'[arg[1]])]_vars

\* Motor a was recalibrated from 0 to -10 and then driven at 50: the frame
\* carries 40, and motor b still has the factor it was constructed with.
C10_Witness ==
    /\ op = "control_motor" /\ res = "ok"
    /\ motor_cal_values = [a |-> -10, b |-> 0]
    /\ Len(wire) >= 4
    /\ SubSeq(wire, Len(wire) - 2, Len(wire)) = <<202, 0, 40>>

====
